---- MODULE Spec2Model ----
(***************************************************************************)
(* Category feed of the post service (post.service.ts):                    *)
(*   getPostCategories   - cached, priority-sorted category snapshot with  *)
(*                         exclusion and cursor pagination                 *)
(*   getPostsByCategory  - per-category ranked posts, one query for their  *)
(*                         images, and the merge that attaches to every    *)
(*                         ranked row an image no earlier row has taken    *)
(* The tables of the content store are state.  A request is resolved to    *)
(* its category page, looks up the named user, and then runs the two       *)
(* queries and the merge in one step.                                      *)
(***************************************************************************)
EXTENDS Integers, Sequences, FiniteSets, TLC

VARIABLES
    Tag,          \* "Tag" table: id -> [color, isCategory]
    TagsOnPost,   \* "TagsOnPost" table: postId -> set of tagIds
    Post,         \* "Post" table: id -> [publishedAt, username of its owner]
    PostMetric,   \* "PostMetric" rows of the requested timeframe: postId -> optional row
    Image,        \* "Image" table: id -> [postId, index]
    User,         \* "User" table: the usernames that exist
    redis,        \* value of the key system:categories:posts (optional string)
    pc,           \* position of the request inside getPostsByCategory
    input,        \* the request (after input.limit ??= 10)
    given,        \* the request as the caller sent it
    categories,   \* local `categories`
    nextCursor,   \* local `nextCursor`
    images,       \* local `images`
    result,       \* what the caller receives
    walkSeen,     \* categories of the earlier pages of the current cursor walk
    calls         \* the getPostCategories calls in flight: caller -> its position and locals

dbVars == <<Tag, TagsOnPost, Post, PostMetric, Image, User>>
vars == <<Tag, TagsOnPost, Post, PostMetric, Image, User, redis, pc, input, given,
          categories, nextCursor, images, result, walkSeen, calls>>

(***************************************************************************)
(* Bounds of the model                                                     *)
(***************************************************************************)
NumTags == 3
NumPosts == 3
MaxImagesPerPost == 2
MaxLimit == 2
NumCallers == 3
MaxImages == 3

(***************************************************************************)
(* Constants of the program                                                *)
(***************************************************************************)
DefaultLimit == 10
DefaultPostLimit == 12
DefaultImageLimit == 1

TagIds == 1..NumTags
Callers == 1..NumCallers
PostIds == 1..NumPosts

\* an optional value: undefined / null, or a value
None == <<>>
Some(x) == <<x>>
OrElse(o, d) == IF o = None THEN d ELSE o[1]

Min(a, b) == IF a < b THEN a ELSE b

\* Array.prototype.slice(start, end) on a sequence, 0-based and end-exclusive
Slice(s, start, end) ==
    LET e == Min(end, Len(s))
    IN  IF start >= e THEN <<>> ELSE SubSeq(s, start + 1, e)

\* Array.prototype.findIndex, 0-based, -1 when nothing matches
FindIndex(s, Test(_)) ==
    IF \E i \in 1..Len(s) : Test(s[i])
    THEN (CHOOSE i \in 1..Len(s) : Test(s[i]) /\ \A j \in 1..(i - 1) : ~Test(s[j])) - 1
    ELSE 0 - 1

\* the elements of a set of integers in ascending order
RECURSIVE Ascending(_)
Ascending(S) ==
    IF S = {} THEN <<>>
    ELSE LET m == CHOOSE x \in S : \A y \in S : x <= y
         IN  <<m>> \o Ascending(S \ {m})

Range(s) == {s[i] : i \in 1..Len(s)}

(***************************************************************************)
(* getPostCategories                                                       *)
(***************************************************************************)
colorPriority ==
    <<"red", "orange", "yellow", "green", "blue", "purple", "pink", "brown", "grey">>

indexOfOr(array, value, or) ==
    LET i == FindIndex(array, LAMBDA x : x = value)
    IN  IF i = 0 - 1 THEN or ELSE i

\* dbRead.tag.findMany({ where: { target has Post, isCategory: true } })
categoriesRaw(tagTable) ==
    LET ids == Ascending({t \in DOMAIN tagTable : tagTable[t].isCategory})
    IN  [i \in 1..Len(ids) |-> [id |-> ids[i], color |-> tagTable[ids[i]].color]]

toCategory(c) ==
    [id |-> c.id,
     priority |-> indexOfOr(colorPriority, OrElse(c.color, "grey"), Len(colorPriority))]

sortByPriority_unsorted(s) == s

\* Array.prototype.sort((a, b) => a.priority - b.priority): a stable sort
RECURSIVE sortByPriority(_)
sortByPriority(s) ==
    IF s = <<>> THEN <<>>
    ELSE LET n == Len(s)
             front == sortByPriority(SubSeq(s, 1, n - 1))
             k == Cardinality({i \in 1..Len(front) : front[i].priority <= s[n].priority})
         IN  SubSeq(front, 1, k) \o <<s[n]>> \o SubSeq(front, k + 1, Len(front))

\* JSON.stringify of a PostCategory[]: the text, as the flat list of its numbers
JSONstringify(cats) ==
    [i \in 1..(2 * Len(cats)) |->
        IF i % 2 = 1 THEN cats[(i + 1) \div 2].id ELSE cats[i \div 2].priority]

\* JSON.parse of that text
JSONparse(text) ==
    [i \in 1..(Len(text) \div 2) |-> [id |-> text[2 * i - 1], priority |-> text[2 * i]]]

\* the snapshot a call works with: the cached one, or a fresh one on a miss
snapshotOf(redisVal, tagTable) ==
    IF redisVal # None
    THEN JSONparse(redisVal[1])
    ELSE sortByPriority([i \in 1..Len(categoriesRaw(tagTable)) |->
                            toCategory(categoriesRaw(tagTable)[i])])

\* the cache after the call: written on a miss only
redisAfter(redisVal, tagTable) ==
    IF redisVal # None THEN redisVal
    ELSE Some(JSONstringify(snapshotOf(redisVal, tagTable)))

\* lines 372-377: exclusion, cursor position, slice.  excludeIds is a set
\* (an absent list and an empty one filter alike); limit and cursor are
\* optional, and `if (cursor)`, `if (limit)` also skip a 0.
startOf_fromTop(filtered, cursor) == 0

startOf_atCursor(filtered, cursor) ==
    IF cursor # None /\ \E i \in 1..Len(filtered) : filtered[i].id = cursor[1]
    THEN FindIndex(filtered, LAMBDA c : c.id = cursor[1])
    ELSE 0

startOf(filtered, cursor) ==
    IF cursor # None /\ cursor[1] # 0
    THEN FindIndex(filtered, LAMBDA c : c.id = cursor[1]) + 1
    ELSE 0

pageOf_noExclusion(snapshot, excludeIds, limit, cursor) ==
    LET start == startOf(snapshot, cursor)
    IN  IF limit # None /\ limit[1] # 0
        THEN Slice(snapshot, start, start + limit[1])
        ELSE snapshot

pageOf(snapshot, excludeIds, limit, cursor) ==
    LET filtered == SelectSeq(snapshot, LAMBDA c : c.id \notin excludeIds)
        start == startOf(filtered, cursor)
    IN  IF limit # None /\ limit[1] # 0
        THEN Slice(filtered, start, start + limit[1])
        ELSE filtered

getPostCategories(redisVal, tagTable, excludeIds, limit, cursor) ==
    pageOf(snapshotOf(redisVal, tagTable), excludeIds, limit, cursor)

(***************************************************************************)
(* getPostsByCategory: the ranked post rows                                *)
(***************************************************************************)
\* the sequences that list every element of S once
Orderings(S) ==
    {s \in [1..Cardinality(S) -> S] : \A i, j \in 1..Cardinality(S) : i # j => s[i] # s[j]}

\* the leading expression of `orderBy` for a post (NULL when the LEFT JOIN
\* finds no PostMetric row, and absent for the default sort)
orderByValue(p, sort) ==
    IF sort = "MostReactions" /\ PostMetric[p] # None
    THEN Some(PostMetric[p][1].likeCount + PostMetric[p][1].heartCount
              + PostMetric[p][1].laughCount + PostMetric[p][1].cryCount)
    ELSE IF sort = "MostComments" /\ PostMetric[p] # None
    THEN Some(PostMetric[p][1].commentCount)
    ELSE None

orderBy_nullsFirst(p, q, sort) ==
    LET a == orderByValue(p, sort)
        b == orderByValue(q, sort)
    IN  IF a # b
        THEN a = None \/ (b # None /\ a[1] > b[1])
        ELSE Post[p].publishedAt[1] > Post[q].publishedAt[1]

\* p sorts strictly before q under `orderBy`: DESC NULLS LAST, then publishedAt DESC
orderBy(p, q, sort) ==
    LET a == orderByValue(p, sort)
        b == orderByValue(q, sort)
    IN  IF a # b
        THEN b = None \/ (a # None /\ a[1] > b[1])
        ELSE Post[p].publishedAt[1] > Post[q].publishedAt[1]

\* the AND list: excluded tags and the selected user (the fields the
\* requests of this model leave undefined add no clause)
matchesAND(p, in) ==
    /\ in.excludedTagIds # {} => TagsOnPost[p] \cap in.excludedTagIds = {}
    /\ in.username # None => Post[p].username = in.username[1]

\* LIMIT of one target: Math.ceil((input.postLimit ?? 12) * 1.25)
targetLimit(in) == (OrElse(in.postLimit, DefaultPostLimit) * 5 + 3) \div 4

\* the posts one target ranks: joined to the tag, published (period AllTime)
targetPosts(tagId, in) ==
    {p \in DOMAIN Post : /\ tagId \in TagsOnPost[p]
                         /\ Post[p].publishedAt # None
                         /\ matchesAND(p, in)}

\* one target: row_number() over `orderBy`, cut at the limit.  Rows that tie
\* on every sort expression are numbered in an order the store chooses.
targets(tagId, in) ==
    {{[id |-> s[i], tagId |-> tagId, index |-> i] : i \in 1..Min(Len(s), targetLimit(in))} :
        s \in {o \in Orderings(targetPosts(tagId, in)) :
                  \A i, j \in 1..Len(o) : i < j => ~orderBy(o[j], o[i], in.sort)}}

\* UNION ALL of the targets of the page's categories
RECURSIVE unionAll(_, _)
unionAll(cats, in) ==
    IF cats = <<>> THEN {{}}
    ELSE {a \cup b : a \in targets(Head(cats).id, in), b \in unionAll(Tail(cats), in)}

\* ORDER BY t."index": rows of equal index come in an order the store chooses
RECURSIVE orderByIndex(_, _)
orderByIndex(rows, k) ==
    IF rows = {} THEN {<<>>}
    ELSE LET level == {r \in rows : r.index = k}
         IN  {a \o b : a \in Orderings(level), b \in orderByIndex(rows \ level, k + 1)}

\* every value the store may return for `postsRaw`
postsRawOf(cats, in) ==
    UNION {orderByIndex(rows, 1) : rows \in unionAll(cats, in)}

(***************************************************************************)
(* getPostsByCategory: the images                                          *)
(***************************************************************************)
\* row_number() OVER (PARTITION BY i."postId" ORDER BY i."index")
row_number(i) ==
    1 + Cardinality({j \in DOMAIN Image :
            /\ Image[j].postId = Image[i].postId
            /\ \/ Image[j].index < Image[i].index
               \/ Image[j].index = Image[i].index /\ j < i})

\* WHERE row_number <= ${input.limit ?? 1}, input being the request after line 419
imageLimit(in) == OrElse(in.limit, DefaultImageLimit)

\* ORDER BY row_number (rows of equal row_number belong to different posts;
\* the merge looks at the rows of one post at a time)
RECURSIVE imagesFrom(_, _)
imagesFrom(ids, k) ==
    IF ids = {} THEN <<>>
    ELSE LET level == Ascending({i \in ids : row_number(i) = k})
         IN  [n \in 1..Len(level) |->
                [id |-> level[n], postId |-> Image[level[n]].postId, row_number |-> k]]
             \o imagesFrom(ids \ Range(level), k + 1)

imagesOf(postIds, in) ==
    imagesFrom({i \in DOMAIN Image : Image[i].postId \in postIds
                                     /\ row_number(i) <= imageLimit(in)}, 1)

(***************************************************************************)
(* getPostsByCategory: the merge                                           *)
(***************************************************************************)
rawToProcess_anyImage(raw, imgs, usedImages) ==
    LET i == FindIndex(imgs, LAMBDA im : im.postId = raw.id)
    IN  IF i = 0 - 1 THEN None
        ELSE Some([id |-> raw.id, tagId |-> raw.tagId, index |-> raw.index,
                   image |-> imgs[i + 1].id])

rawToProcess_nullImage(raw, imgs, usedImages) ==
    LET i == FindIndex(imgs, LAMBDA im : im.postId = raw.id /\ im.id \notin usedImages)
    IN  Some([id |-> raw.id, tagId |-> raw.tagId, index |-> raw.index,
              image |-> IF i = 0 - 1 THEN 0 ELSE imgs[i + 1].id])

\* rawToProcess: the first fetched image of the post that no earlier row took
rawToProcess(raw, imgs, usedImages) ==
    LET i == FindIndex(imgs, LAMBDA im : im.postId = raw.id /\ im.id \notin usedImages)
    IN  IF i = 0 - 1 THEN None
        ELSE Some([id |-> raw.id, tagId |-> raw.tagId, index |-> raw.index,
                   image |-> imgs[i + 1].id])

\* the loop over postsRaw; a tag without an entry in postCategories is a tag
\* with the empty list here (an entry is created by its first push)
RECURSIVE postCategories(_, _, _, _)
postCategories(raws, imgs, usedImages, acc) ==
    IF raws = <<>> THEN acc
    ELSE LET processed == rawToProcess(Head(raws), imgs, usedImages)
         IN  IF processed = None
             THEN postCategories(Tail(raws), imgs, usedImages, acc)
             ELSE postCategories(Tail(raws), imgs, usedImages \cup {processed[1].image},
                     [acc EXCEPT ![Head(raws).tagId] = Append(@, processed[1])])

\* lines 575-581: the categories that have an entry, each with its list
itemsOf(cats, byTag) ==
    LET kept == SelectSeq(cats, LAMBDA c : byTag[c.id] # <<>>)
    IN  [i \in 1..Len(kept) |->
            [id |-> kept[i].id, priority |-> kept[i].priority, items |-> byTag[kept[i].id]]]

(***************************************************************************)
(* The request                                                             *)
(***************************************************************************)
Sorts == {"Newest", "MostReactions", "MostComments"}

NoInput ==
    [cursor |-> None, limit |-> None, postLimit |-> None, sort |-> "Newest",
     excludedTagIds |-> {}, username |-> None]

NoResult == [status |-> "none", error |-> "", items |-> <<>>, nextCursor |-> None]

Threw(message) == [status |-> "error", error |-> message, items |-> <<>>, nextCursor |-> None]

\* a caller that is not inside getPostCategories
NoCall ==
    [pc |-> "idle", excludeIds |-> {}, limit |-> None, cursor |-> None,
     categories |-> <<>>, cached |-> FALSE, read |-> FALSE]

Idle ==
    /\ pc = "idle"
    /\ calls = [c \in Callers |-> NoCall]
    /\ input = NoInput
    /\ given = NoInput
    /\ categories = <<>>
    /\ nextCursor = None
    /\ images = <<>>
    /\ result = NoResult
    /\ walkSeen = {}

\* line 428: is the last category of the page popped as the next cursor
hasMore_atLimit(page, limit) == Len(page) >= limit

hasMore(page, limit) == Len(page) > limit

\* lines 419-428: the default limit, the category page of limit + 1, and the
\* last of them popped as the cursor of the next page
resolve(in) ==
    LET limit == OrElse(in.limit, DefaultLimit)
        page == getPostCategories(redis, Tag, in.excludedTagIds, Some(limit + 1), in.cursor)
        more == page # <<>> /\ hasMore(page, limit)
    IN  /\ given' = in
        /\ input' = [in EXCEPT !.limit = Some(limit)]
        /\ redis' = redisAfter(redis, Tag)
        /\ nextCursor' = IF more THEN Some(page[Len(page)].id) ELSE None
        /\ categories' = IF more THEN SubSeq(page, 1, Len(page) - 1) ELSE page
        /\ pc' = IF in.username # None THEN "user" ELSE "posts"
        /\ images' = <<>>
        /\ result' = NoResult
        /\ UNCHANGED <<dbVars, calls>>

\* a caller starts getPostsByCategory
Request(in) ==
    /\ pc = "idle"
    /\ resolve(in)
    /\ walkSeen' = {}

\* the caller asks for the next page with the cursor it was handed
NextPage ==
    /\ pc = "done"
    /\ result.nextCursor # None
    /\ resolve([given EXCEPT !.cursor = result.nextCursor])
    /\ walkSeen' = walkSeen \cup {categories[i].id : i \in 1..Len(categories)}

LookupUser_noThrow ==
    /\ pc = "user"
    /\ pc' = "posts"
    /\ UNCHANGED <<dbVars, redis, input, given, categories, nextCursor, images, result, walkSeen, calls>>

\* lines 445-452: dbRead.user.findUnique and the throw
LookupUser ==
    /\ pc = "user"
    /\ IF input.username[1] \in User
       THEN pc' = "posts" /\ result' = result
       ELSE pc' = "failed" /\ result' = Threw("User not found")
    /\ UNCHANGED <<dbVars, redis, input, given, categories, nextCursor, images, walkSeen, calls>>

\* lines 467-583.  Prisma.join throws on an empty list, at line 493 for a
\* page without categories and at line 520 for a page without post rows.
SelectAndAttach ==
    /\ pc = "posts"
    /\ IF categories = <<>>
       THEN /\ pc' = "failed"
            /\ result' = Threw("TypeError: join([])")
            /\ images' = images
       ELSE \E postsRaw \in postsRawOf(categories, input) :
              IF postsRaw = <<>>
              THEN /\ pc' = "failed"
                   /\ result' = Threw("TypeError: join([])")
                   /\ images' = images
              ELSE LET imgs == imagesOf({postsRaw[i].id : i \in 1..Len(postsRaw)}, input)
                       byTag == postCategories(postsRaw, imgs, {}, [t \in DOMAIN Tag |-> <<>>])
                   IN  /\ pc' = "done"
                       /\ images' = imgs
                       /\ result' = [status |-> "ok", error |-> "",
                                      items |-> itemsOf(categories, byTag),
                                      nextCursor |-> nextCursor]
    /\ UNCHANGED <<dbVars, redis, input, given, categories, nextCursor, walkSeen, calls>>

\* the caller has its answer; the locals are gone
Return ==
    /\ pc \in {"done", "failed", "listed"}
    /\ pc' = "idle"
    /\ input' = NoInput
    /\ given' = NoInput
    /\ categories' = <<>>
    /\ nextCursor' = None
    /\ images' = <<>>
    /\ result' = NoResult
    /\ walkSeen' = {}
    /\ UNCHANGED <<dbVars, redis, calls>>

\* a caller of getPostCategories itself (it is exported): limit and cursor
\* are both optional there
ListCategories(in) ==
    /\ pc = "idle"
    /\ given' = in
    /\ input' = in
    /\ categories' = getPostCategories(redis, Tag, in.excludedTagIds, in.limit, in.cursor)
    /\ redis' = redisAfter(redis, Tag)
    /\ pc' = "listed"
    /\ UNCHANGED <<dbVars, nextCursor, images, result, walkSeen, calls>>

(***************************************************************************)
(* getPostCategories step by step: each await is a point where another     *)
(* caller may run.  `cached` records whether the key was set when the call  *)
(* read it, `read` whether the call queried the Tag table.                  *)
(***************************************************************************)
otherVars == <<dbVars, pc, input, given, categories, nextCursor, images, result, walkSeen>>

getCache_uncached(c, excludeIds, limit, cursor) ==
    /\ calls[c].pc = "idle"
    /\ calls' = [calls EXCEPT ![c] =
                    [NoCall EXCEPT !.excludeIds = excludeIds, !.limit = limit, !.cursor = cursor,
                                   !.cached = (redis # None), !.pc = "findMany"]]
    /\ UNCHANGED <<otherVars, redis>>

\* lines 353-355: await redis.get, and JSON.parse of a hit
getCache(c, excludeIds, limit, cursor) ==
    /\ calls[c].pc = "idle"
    /\ calls' = [calls EXCEPT ![c] =
                    [NoCall EXCEPT !.excludeIds = excludeIds, !.limit = limit, !.cursor = cursor,
                                   !.cached = (redis # None),
                                   !.categories = IF redis # None THEN JSONparse(redis[1]) ELSE <<>>,
                                   !.pc = IF redis # None THEN "page" ELSE "findMany"]]
    /\ UNCHANGED <<otherVars, redis>>

\* lines 357-368: await dbRead.tag.findMany, then map and sort
findMany(c) ==
    /\ calls[c].pc = "findMany"
    /\ calls' = [calls EXCEPT ![c].categories =
                        sortByPriority([i \in 1..Len(categoriesRaw(Tag)) |->
                                           toCategory(categoriesRaw(Tag)[i])]),
                               ![c].read = TRUE,
                               ![c].pc = "set"]
    /\ UNCHANGED <<otherVars, redis>>

\* line 369: await redis.set
setCache(c) ==
    /\ calls[c].pc = "set"
    /\ redis' = Some(JSONstringify(calls[c].categories))
    /\ calls' = [calls EXCEPT ![c].pc = "page"]
    /\ UNCHANGED otherVars

\* lines 372-377: the page of the call, which it returns
returnPage(c) ==
    /\ calls[c].pc = "page"
    /\ calls' = [calls EXCEPT ![c].categories =
                        pageOf(calls[c].categories, calls[c].excludeIds,
                               calls[c].limit, calls[c].cursor),
                               ![c].pc = "returned"]
    /\ UNCHANGED <<otherVars, redis>>

(***************************************************************************)
(* addPostImage and reorderPostImages: the writers of Image.index          *)
(***************************************************************************)
notImage == <<Tag, TagsOnPost, Post, PostMetric, User, redis, pc, input, given,
              categories, nextCursor, images, result, walkSeen, calls>>

\* the id an autoincrement column gives the next row
nextId(table) ==
    IF DOMAIN table = {} THEN 1
    ELSE 1 + CHOOSE m \in DOMAIN table : \A k \in DOMAIN table : k <= m

\* lines 268-291: image.create with the fields of the input, as they are sent
addPostImage(postId, index) ==
    /\ Cardinality(DOMAIN Image) < MaxImages
    /\ Image' = [i \in DOMAIN Image \cup {nextId(Image)} |->
                    IF i \in DOMAIN Image THEN Image[i]
                    ELSE [postId |-> postId, index |-> index]]
    /\ UNCHANGED notImage

\* lines 315-323: one transaction of image.update({ where: { id }, data: { index } }),
\* index being the position of the id in imageIds (from 0)
reorderPostImages(imageIds) ==
    /\ Image' = [i \in DOMAIN Image |->
                    IF \E k \in 1..Len(imageIds) : imageIds[k] = i
                    THEN [Image[i] EXCEPT !.index =
                             (CHOOSE k \in 1..Len(imageIds) : imageIds[k] = i) - 1]
                    ELSE Image[i]]
    /\ UNCHANGED notImage

(***************************************************************************)
(* The content stores and the requests of the specifications               *)
(***************************************************************************)
Usernames == {"alice", "bob"}
ownerOf(p) == IF p % 2 = 1 THEN "alice" ELSE "bob"

Limits == {None} \cup {Some(n) : n \in 1..MaxLimit}

\* categories 1 (red) and 2 (blue), the others without a color
feedTag == [t \in TagIds |->
              [color |-> IF t = 1 THEN Some("red") ELSE IF t = 2 THEN Some("blue") ELSE None,
               isCategory |-> TRUE]]

\* the images of a store where post p has count[p] of them: their ids run
\* post by post, and within a post the later image is displayed first
imagesByCount(count) ==
    LET ids == {<<p, k>> : p \in PostIds, k \in 1..MaxImagesPerPost}
        used == {x \in ids : x[2] <= count[x[1]]}
    IN  [i \in {(x[1] - 1) * MaxImagesPerPost + x[2] : x \in used} |->
            LET p == ((i - 1) \div MaxImagesPerPost) + 1
                k == i - (p - 1) * MaxImagesPerPost
            IN  [postId |-> p, index |-> count[p] - k]]

\* Spec: posts tagged 1, 2 or both, with 0..MaxImagesPerPost images each
Init ==
    /\ Idle
    /\ redis = None
    /\ Tag = feedTag
    /\ TagsOnPost \in [PostIds -> {{1}, {2}, {1, 2}}]
    /\ Post = [p \in PostIds |-> [publishedAt |-> Some(p), username |-> ownerOf(p)]]
    /\ PostMetric = [p \in PostIds |-> None]
    /\ \E count \in [PostIds -> 0..MaxImagesPerPost] : Image = imagesByCount(count)
    /\ User = Usernames

Inputs ==
    {[NoInput EXCEPT !.limit = l, !.postLimit = pl] :
        l \in {None, Some(1)}, pl \in {None, Some(1)}}

Next ==
    \/ \E in \in Inputs : Request(in)
    \/ SelectAndAttach
    \/ Return

Spec == Init /\ [][Next]_vars

\* SpecRank: drafts, metric rows and publish times vary; every post has one image
MetricRows ==
    {[likeCount |-> l, heartCount |-> 0, laughCount |-> 0, cryCount |-> 0,
      commentCount |-> 1 - l] : l \in 0..1}

InitRank ==
    /\ Idle
    /\ redis = None
    /\ Tag = feedTag
    /\ TagsOnPost = [p \in PostIds |-> IF p % 2 = 0 THEN {1, 2} ELSE {1}]
    /\ \E at \in [PostIds -> {None, Some(1), Some(2)}] :
          Post = [p \in PostIds |-> [publishedAt |-> at[p], username |-> ownerOf(p)]]
    /\ PostMetric \in [PostIds -> {None} \cup {Some(m) : m \in MetricRows}]
    /\ Image = imagesByCount([p \in PostIds |-> 1])
    /\ User = Usernames

RankInputs ==
    {[NoInput EXCEPT !.sort = s, !.username = u] :
        s \in Sorts, u \in {None, Some("alice"), Some("ghost")}}

NextRank ==
    \/ \E in \in RankInputs : Request(in)
    \/ LookupUser
    \/ SelectAndAttach
    \/ Return

SpecRank == InitRank /\ [][NextRank]_vars

\* SpecPaging: the tags vary; every tag has a post with an image
TagKinds ==
    {[color |-> Some(c), isCategory |-> TRUE] : c \in {"red", "blue", "teal"}}
    \cup {[color |-> None, isCategory |-> FALSE]}

InitPaging ==
    /\ Idle
    /\ redis = None
    /\ Tag \in [TagIds -> TagKinds]
    /\ TagsOnPost = [p \in PostIds |-> {t \in TagIds : t % NumPosts = p % NumPosts}]
    /\ Post = [p \in PostIds |-> [publishedAt |-> Some(p), username |-> ownerOf(p)]]
    /\ PostMetric = [p \in PostIds |-> None]
    /\ Image = imagesByCount([p \in PostIds |-> 1])
    /\ User = Usernames

PagingInputs ==
    {[NoInput EXCEPT !.cursor = c, !.limit = l, !.excludedTagIds = x] :
        c \in {None} \cup {Some(t) : t \in TagIds},
        l \in Limits,
        x \in {{}} \cup {{t} : t \in TagIds}}

NextPaging ==
    \/ \E in \in PagingInputs : Request(in)
    \/ \E in \in PagingInputs : ListCategories(in)
    \/ NextPage
    \/ SelectAndAttach
    \/ Return

SpecPaging == InitPaging /\ [][NextPaging]_vars

\* SpecWalk: as SpecPaging, every walk starting without a cursor
WalkInputs == {in \in PagingInputs : in.cursor = None}

NextWalk ==
    \/ \E in \in WalkInputs : Request(in)
    \/ NextPage
    \/ SelectAndAttach
    \/ Return

SpecWalk == InitPaging /\ [][NextWalk]_vars

\* SpecCache: callers of getPostCategories race from an empty cache over a
\* Tag table that stays as it is
CacheKinds ==
    {[color |-> Some(c), isCategory |-> TRUE] : c \in {"blue", "red"}}
    \cup {[color |-> None, isCategory |-> FALSE]}

InitCache ==
    /\ Idle
    /\ redis = None
    /\ Tag \in [TagIds -> CacheKinds]
    /\ TagsOnPost = [p \in PostIds |-> {}]
    /\ Post = [p \in PostIds |-> [publishedAt |-> Some(p), username |-> ownerOf(p)]]
    /\ PostMetric = [p \in PostIds |-> None]
    /\ Image = imagesByCount([p \in PostIds |-> 0])
    /\ User = Usernames

\* the arguments of the racing calls: everything, or the first category after 1
CacheArgs ==
    {[excludeIds |-> {}, limit |-> None, cursor |-> None],
     [excludeIds |-> {1}, limit |-> Some(1), cursor |-> None]}

NextCache ==
    \/ \E c \in Callers, a \in CacheArgs : getCache(c, a.excludeIds, a.limit, a.cursor)
    \/ \E c \in Callers : findMany(c)
    \/ \E c \in Callers : setCache(c)
    \/ \E c \in Callers : returnPage(c)

SpecCache == InitCache /\ [][NextCache]_vars

\* SpecImages: images are added to the posts and reordered, from an empty
\* Image table
InitImages ==
    /\ Idle
    /\ redis = None
    /\ Tag = feedTag
    /\ TagsOnPost = [p \in PostIds |-> {1}]
    /\ Post = [p \in PostIds |-> [publishedAt |-> Some(p), username |-> ownerOf(p)]]
    /\ PostMetric = [p \in PostIds |-> None]
    /\ Image = imagesByCount([p \in PostIds |-> 0])
    /\ User = Usernames

\* the lists a caller may send: existing image ids, each once
ImageIdLists == UNION {Orderings(S) : S \in (SUBSET DOMAIN Image) \ {{}}}

NextImages ==
    \/ \E p \in PostIds, index \in 0..(MaxImages - 1) : addPostImage(p, index)
    \/ \E imageIds \in ImageIdLists : reorderPostImages(imageIds)

SpecImages == InitImages /\ [][NextImages]_vars

(***************************************************************************)
(* Properties                                                              *)
(***************************************************************************)
\* the places of the feed items of the response: <<category, position>>
Places ==
    UNION {{<<i, j>> : j \in 1..Len(result.items[i].items)} : i \in 1..Len(result.items)}

ItemAt(x) == result.items[x[1]].items[x[2]]

pageIds == {categories[i].id : i \in 1..Len(categories)}

\* C1: no image identifier is attached to more than one feed item of a
\* response, whatever the categories of the two items
C1_NoImageTwice ==
    result.status = "ok" =>
        \A x, y \in Places : x # y => ItemAt(x).image # ItemAt(y).image

\* a response that shows one post under two categories, each with its own image
C1_Witness ==
    /\ result.status = "ok"
    /\ \E x, y \in Places : x[1] # y[1] /\ ItemAt(x).id = ItemAt(y).id

\* C2: the categories of a page asked for with the returned nextCursor are
\* none of the categories of the earlier pages of the walk
C2_NoCategoryTwice == pageIds \cap walkSeen = {}

\* a later page of a walk that resolves categories
C2_Witness == pc = "done" /\ walkSeen # {} /\ categories # <<>>

\* the categories left for a page: the snapshot without the excluded ones,
\* from the position after the cursor
remaining ==
    LET filtered == SelectSeq(snapshotOf(redis, Tag),
                              LAMBDA c : c.id \notin given.excludedTagIds)
    IN  Len(filtered) - startOf(filtered, given.cursor)

\* C3: nextCursor is set exactly when more categories are left for the page
\* than the limit asks for; at most `limit` categories are used, and the
\* response carries that nextCursor
C3_NextCursorIffMore ==
    pc \in {"user", "posts", "done", "failed"} =>
        /\ nextCursor # None <=> remaining > input.limit[1]
        /\ Len(categories) <= input.limit[1]
        /\ result.status = "ok" => result.nextCursor = nextCursor

\* a page that leaves categories for the next one
C3_Witness == pc = "done" /\ result.nextCursor # None /\ Len(categories) = input.limit[1]

\* the posts of a category list of the response
postIdsOf(items) == [j \in 1..Len(items) |-> items[j].id]

hasImage(p) == \E i \in DOMAIN Image : Image[i].postId = p

\* C4: posts 1 and 2 under category 1 (red), post 3 under category 2 (blue),
\* all with an image, post 2 published after post 1, postLimit 1, sorted by
\* recency: the response is exactly [{1, [post 2]}, {2, [post 3]}]
C4_TopPostOnly ==
    (/\ pc = "done"
     /\ NumPosts = 3
     /\ TagsOnPost = (1 :> {1} @@ 2 :> {1} @@ 3 :> {2})
     /\ \A p \in PostIds : hasImage(p)
     /\ given.postLimit = Some(1) /\ given.limit = None /\ given.sort = "Newest")
    => /\ Len(result.items) = 2
       /\ result.items[1].id = 1 /\ postIdsOf(result.items[1].items) = <<2>>
       /\ result.items[2].id = 2 /\ postIdsOf(result.items[2].items) = <<3>>

\* post p is at rank 1 of the target of a tag
rankedFirst(p, tagId) ==
    /\ p \in targetPosts(tagId, input)
    /\ \A q \in targetPosts(tagId, input) : ~orderBy(q, p, input.sort)

\* C5: a post at rank 1 of categories 1 and 2 (1 before 2 on the page) with a
\* single fetched image appears under category 1 with that image and not
\* under category 2, on every run
C5_FirstCategoryWins ==
    \A p \in PostIds :
        (/\ pc = "done"
         /\ Len(categories) >= 2 /\ categories[1].id = 1 /\ categories[2].id = 2
         /\ rankedFirst(p, 1) /\ rankedFirst(p, 2)
         /\ Cardinality({n \in 1..Len(images) : images[n].postId = p}) = 1)
        => /\ \E x \in Places : result.items[x[1]].id = 1 /\ ItemAt(x).id = p
           /\ ~\E x \in Places : result.items[x[1]].id = 2 /\ ItemAt(x).id = p

\* C6: a getPostsByCategory request whose page has no categories, or whose
\* categories have no qualifying post, ends normally with no items
C6_EmptyIsNotAnError ==
    (/\ pc \in {"done", "failed"}
     /\ \/ categories = <<>>
        \/ \A i \in 1..Len(categories) : targetPosts(categories[i].id, input) = {})
    => result.status = "ok" /\ result.items = <<>>

reactionsOf(p) ==
    PostMetric[p][1].likeCount + PostMetric[p][1].heartCount
    + PostMetric[p][1].laughCount + PostMetric[p][1].cryCount

\* post a may stand before post b in a list sorted by `sort`: by the count
\* (posts without a metric row last), then by publish time, both descending
mayPrecede(a, b, sort) ==
    LET at == Post[a].publishedAt[1]
        bt == Post[b].publishedAt[1]
    IN  IF sort = "Newest" THEN at >= bt
        ELSE IF PostMetric[a] = None THEN PostMetric[b] = None /\ at >= bt
        ELSE IF PostMetric[b] = None THEN TRUE
        ELSE LET ka == IF sort = "MostReactions" THEN reactionsOf(a)
                       ELSE PostMetric[a][1].commentCount
                 kb == IF sort = "MostReactions" THEN reactionsOf(b)
                       ELSE PostMetric[b][1].commentCount
             IN  ka > kb \/ (ka = kb /\ at >= bt)

\* C8: the items of every category of the response stand in increasing rank
\* index, which is the descending order of the sort key
C8_RankOrder ==
    result.status = "ok" =>
        \A x, y \in Places :
            (x[1] = y[1] /\ x[2] < y[2]) =>
                /\ ItemAt(x).index < ItemAt(y).index
                /\ mayPrecede(ItemAt(x).id, ItemAt(y).id, input.sort)

\* a category that lost a ranked row to the merge and still lists two posts,
\* the older one first because it has more reactions
C8_Witness ==
    /\ result.status = "ok"
    /\ input.sort = "MostReactions"
    /\ \E x, y \in Places :
          /\ x[1] = y[1] /\ x[2] < y[2]
          /\ Post[ItemAt(x).id].publishedAt[1] < Post[ItemAt(y).id].publishedAt[1]
          /\ Len(result.items[x[1]].items)
               < Cardinality(targetPosts(result.items[x[1]].id, input))

\* C9: the image query returns at most perPostLimit images of a post, 1 when
\* the caller names no limit, taken in ascending display index
C9_PerPostLimit ==
    pc = "done" =>
        \A p \in PostIds :
            LET mine == SelectSeq(images, LAMBDA im : im.postId = p)
            IN  /\ Len(mine) <= OrElse(given.limit, DefaultImageLimit)
                /\ \A m, n \in 1..Len(mine) :
                      m < n => Image[mine[m].id].index < Image[mine[n].id].index

\* C10: a request that names a username no user has ends in the error
\* "User not found": no items, no cursor, and no query after the lookup
C10_UnknownUserFails ==
    (given.username # None /\ given.username[1] \notin User /\ pc # "user") =>
        /\ pc = "failed"
        /\ result = Threw("User not found")
        /\ images = <<>>

\* the request has failed after the category snapshot was written to the cache
C10_Witness ==
    /\ pc = "failed" /\ given.username = Some("ghost")
    /\ result.error = "User not found"
    /\ redis # None

\* C11: a category whose id is in excludedTagIds is on no page, in no item of
\* the response and never the nextCursor, on a cache miss and on a cache hit
C11_ExcludedAbsent ==
    pc \in {"user", "posts", "done", "failed"} =>
        \A t \in given.excludedTagIds :
            /\ t \notin pageIds
            /\ nextCursor # Some(t)
            /\ result.nextCursor # Some(t)
            /\ \A i \in 1..Len(result.items) : result.items[i].id # t

\* a later page of a walk, resolved from the cached snapshot, of a request
\* that excludes a category of that snapshot
C11_Witness ==
    /\ pc \in {"posts", "done", "failed"} /\ walkSeen # {}
    /\ \E t \in given.excludedTagIds : Tag[t].isCategory

\* C12: every feed item carries an image of its own post that the image query
\* returned, every listed category has at least one item, and every item is
\* one of the ranked rows of its category (nothing is fetched to top up)
C12_NoNullImage ==
    result.status = "ok" =>
        /\ \A x \in Places :
              /\ ItemAt(x).image \in {images[n].id : n \in 1..Len(images)}
              /\ ItemAt(x).image \in DOMAIN Image
              /\ Image[ItemAt(x).image].postId = ItemAt(x).id
              /\ ItemAt(x).index <= targetLimit(input)
              /\ ItemAt(x).tagId = result.items[x[1]].id
              /\ ItemAt(x).id \in targetPosts(ItemAt(x).tagId, input)
        /\ \A i \in 1..Len(result.items) : result.items[i].items # <<>>

\* a category of the page with ranked posts is missing from the response,
\* which lists another category
C12_Witness ==
    /\ result.status = "ok" /\ result.items # <<>>
    /\ \E i \in 1..Len(categories) :
          /\ targetPosts(categories[i].id, input) # {}
          /\ \A j \in 1..Len(result.items) : result.items[j].id # categories[i].id

\* the ids of the snapshot's categories that the request does not exclude
wantedIds ==
    {c.id : c \in Range(SelectSeq(snapshotOf(redis, Tag),
                                  LAMBDA c : c.id \notin given.excludedTagIds))}

\* C13: in a walk that starts without a cursor, once a page comes without a
\* nextCursor every category the request does not exclude has been resolved
\* on a page, and on one page only
C13_WalkCoversAll ==
    /\ pageIds \cap walkSeen = {}
    /\ (pc \in {"posts", "done", "failed"} /\ nextCursor = None) =>
          wantedIds \subseteq walkSeen \cup pageIds

\* the palette position the claim gives a color; a color outside the palette
\* only has to rank after every palette color
hasPalettePriority(color, priority) ==
    IF color \in Range(colorPriority)
    THEN colorPriority[priority + 1] = color
    ELSE priority > Len(colorPriority) - 1

\* C15: the categories getPostCategories returns stand in non-decreasing
\* priority, the priority being the palette position of the tag's color,
\* categories of equal priority in store order; the categories of a response
\* of getPostsByCategory stand in the same order
C15_PriorityOrder ==
    /\ \A i \in 1..Len(categories) :
          /\ Tag[categories[i].id].isCategory
          /\ hasPalettePriority(OrElse(Tag[categories[i].id].color, "grey"),
                                categories[i].priority)
    /\ \A i, j \in 1..Len(categories) :
          i < j => \/ categories[i].priority < categories[j].priority
                   \/ /\ categories[i].priority = categories[j].priority
                      /\ categories[i].id < categories[j].id
    /\ \A i, j \in 1..Len(result.items) :
          i < j => \E m, n \in 1..Len(categories) :
                      /\ m < n
                      /\ categories[m] = [id |-> result.items[i].id,
                                          priority |-> result.items[i].priority]
                      /\ categories[n] = [id |-> result.items[j].id,
                                          priority |-> result.items[j].priority]

\* a response that lists a category of unknown color after a palette color
\* whose tag id is larger
C15_Witness ==
    /\ pc = "done"
    /\ \E i, j \in 1..Len(result.items) :
          /\ i < j
          /\ result.items[i].id > result.items[j].id
          /\ Tag[result.items[j].id].color = Some("teal")

C16_StrictOrder ==
    \A i, j \in DOMAIN Image :
        i # j /\ Image[i].postId = Image[j].postId => Image[i].index # Image[j].index

====
